---------------------------- MODULE Spec2Model ----------------------------
(***************************************************************************)
(* Model of riksdagen_corpus/segmentation.py: the noise heuristic          *)
(* (_is_metadata_block), instance detection and speaker resolution         *)
(* (find_instances_xml), document assembly (create_tei) and corpus         *)
(* assembly with its pruning pass (create_parlaclarin).                    *)
(*                                                                         *)
(* Python strings are TLA+ strings (TLC evaluates Len, SubSeq and \o on    *)
(* them).  The texts of the model are ASCII; the letters a-ring, a-umlaut  *)
(* and o-umlaut of the source's character class are not in its alphabet.   *)
(* Python's None is the model value NULL.                                  *)
(***************************************************************************)
EXTENDS Integers, Sequences, FiniteSets, TLC

VARIABLES
    pc,              \* position of the running function
    txt0,            \* _is_metadata_block: its argument
    is_metadata,     \* _is_metadata_block: its return value
    mp_db,           \* find_instances_xml: the roster (its name column), or None
    matched_txt,     \* find_instances_xml: the text of one match
    person,          \* find_instances_xml: the speaker resolved for that match
    root,            \* the document: content blocks of text blocks
    pattern_db,      \* find_instances_xml: the patterns
    protocol_id,     \* find_instances_xml: the document id
    instance_db,     \* the instance table: rows of find_instances_xml
    done_paragraphs, \* create_tei: text blocks of non-empty blocks walked so far
    current_speaker, \* create_tei: current_speaker
    body_div,        \* create_tei: the u elements of the body, in order
    teis,            \* create_parlaclarin: the documents, as given to create_tei
    corpus_metadata, \* create_parlaclarin: metadata
    tree,            \* create_parlaclarin: the elements, in document order
    next_node,       \* the iterator of teiCorpusTree.iter(): the element it yields next
    pass,            \* the run of the pruning loop: 1, or 2 when it is run again
    removed          \* the elements the loop removed, each with its run

noiseVars == <<txt0, is_metadata>>

resolveVars == <<mp_db, matched_txt, person>>

docVars == <<root, pattern_db, protocol_id, instance_db>>

teiVars == <<done_paragraphs, current_speaker, body_div>>

corpusVars == <<teis, corpus_metadata, tree, next_node, pass, removed>>

vars == <<pc, noiseVars, resolveVars, docVars, teiVars, corpusVars>>

\* Python's None (and a null cell of a table); no text of the model contains "<"
NULL == "<None>"

\* mp_db=None: find_instances_xml called without a roster
NoRoster == [is_none |-> TRUE, name |-> <<>>]

\* a float NaN cell, what a missing person is once the table was stored and reloaded
NAN == "<NaN>"

(***************************************************************************)
(* The variables a specification does not use keep these values            *)
(***************************************************************************)
NoiseIdle == txt0 = "" /\ is_metadata = NULL

ResolveIdle == mp_db = NoRoster /\ matched_txt = "" /\ person = NULL

DocIdle == root = <<>> /\ pattern_db = <<>> /\ protocol_id = "" /\ instance_db = <<>>

TeiIdle == done_paragraphs = 0 /\ current_speaker = NULL /\ body_div = <<>>

CorpusIdle ==
    /\ teis = <<>> /\ corpus_metadata = <<>> /\ tree = <<>>
    /\ next_node = 0 /\ pass = 0 /\ removed = <<>>

(***************************************************************************)
(* Strings                                                                 *)
(***************************************************************************)
Char(s, i) == SubSeq(s, i, i)

SetMin(S) == CHOOSE m \in S : \A k \in S : m <= k

SetMax(S) == CHOOSE m \in S : \A k \in S : m >= k

RECURSIVE JoinPieces(_, _, _)
\* ''.join(pieces[lo..hi])
JoinPieces(pieces, lo, hi) ==
    IF lo > hi THEN ""
    ELSE IF lo = hi THEN pieces[lo]
    ELSE JoinPieces(pieces, lo, (lo + hi) \div 2) \o JoinPieces(pieces, ((lo + hi) \div 2) + 1, hi)

\* Python's  c * n
Rep(c, n) == JoinPieces([i \in 1..n |-> c], 1, n)

\* Python's  sub in s
IsSubstr(sub, s) ==
    \E i \in 1..(Len(s) - Len(sub) + 1) : SubSeq(s, i, i + Len(sub) - 1) = sub

LowerCase == "abcdefghijklmnopqrstuvwxyz"

UpperCase == "ABCDEFGHIJKLMNOPQRSTUVWXYZ"

LowerSet == {Char(LowerCase, i) : i \in 1..Len(LowerCase)}

UpperSet == {Char(UpperCase, i) : i \in 1..Len(UpperCase)}

IsLower(c) == c \in LowerSet

IsUpper(c) == c \in UpperSet

ToUpper == [c \in LowerSet |-> Char(UpperCase, CHOOSE i \in 1..Len(LowerCase) : Char(LowerCase, i) = c)]

UpperChar(c) == IF IsLower(c) THEN ToUpper[c] ELSE c

\* Python's  s.upper()
Upper(s) == JoinPieces([i \in 1..Len(s) |-> UpperChar(Char(s, i))], 1, Len(s))

\* the characters str.strip() and str.split() treat as whitespace
IsSpace(c) == c \in {" ", "\n", "\t"}

\* Python's  s.strip()
Strip(s) ==
    LET keep == {i \in 1..Len(s) : ~IsSpace(Char(s, i))}
    IN  IF keep = {} THEN "" ELSE SubSeq(s, SetMin(keep), SetMax(keep))

(***************************************************************************)
(* _is_metadata_block                                                      *)
(***************************************************************************)
\* the class [a-zA-Z ] of the substitution: the characters re.sub keeps
IsAlphabetic(c) == IsLower(c) \/ IsUpper(c) \/ c = " "

\* re.sub("[^a-zA-Z ]+", "", txt): every run of other characters is deleted
KeepAlphabetic(txt) ==
    JoinPieces([i \in 1..Len(txt) |-> IF IsAlphabetic(Char(txt, i)) THEN Char(txt, i) ELSE ""],
               1, Len(txt))

MetadataMaxLen == 150

\* ratio < 0.85, the float comparison len1 / len0 < 0.85 in integers: the
\* quotient of two integers below 2^53 is correctly rounded and 17/20 rounds
\* to the literal 0.85, so the comparison is exact
RatioBelow(len1, len0) == 20 * len1 < 17 * len0

\* a length test that drops the 150 character limit
LengthUnchecked(len0) == TRUE

LengthBelowLimit(len0) == len0 < MetadataMaxLen

_is_metadata_block(txt) ==
    LET txt1 == KeepAlphabetic(txt)
        len0 == Len(txt)
        len1 == Len(txt1)
        len2 == Len(Strip(txt))
    IN  IF len0 = 0 THEN FALSE
        ELSE IF len2 = 0 THEN FALSE
        ELSE RatioBelow(len1, len0) /\ LengthBelowLimit(len0)

(***************************************************************************)
(* Specification SpecNoise: _is_metadata_block on a bounded set of texts   *)
(***************************************************************************)
MaxAlpha == 151

MaxOther == 24

\* texts  lead + alpha*i + other*j : whitespace, then letters or spaces, then
\* digits, punctuation or line breaks
NoiseTexts(maxAlpha, maxOther) ==
    { lead \o Rep(a, i) \o Rep(o, j) :
        lead \in {"", "\n"}, a \in {"a", "Z", " "}, o \in {"7", "\n"},
        i \in 0..maxAlpha, j \in 0..maxOther }

NoiseInit ==
    /\ pc = "noise"
    /\ txt0 \in NoiseTexts(MaxAlpha, MaxOther)
    /\ is_metadata = NULL
    /\ ResolveIdle /\ DocIdle /\ TeiIdle /\ CorpusIdle

Classify ==
    /\ pc = "noise"
    /\ is_metadata' = _is_metadata_block(txt0)
    /\ pc' = "done"
    /\ UNCHANGED <<txt0, resolveVars, docVars, teiVars, corpusVars>>

NoiseNext == Classify

SpecNoise == NoiseInit /\ [][NoiseNext]_vars

(***************************************************************************)
(* C8: _is_metadata_block returns true iff the text has raw length > 0,    *)
(* non-empty stripped text, raw length < 150 and fewer than 85% of its     *)
(* characters are letters or spaces; a text of 150 characters or more and  *)
(* a zero-length or whitespace-only text are never noise.                  *)
(***************************************************************************)
AlphabeticCount(txt) == Cardinality({i \in 1..Len(txt) : IsAlphabetic(Char(txt, i))})

AllWhitespace(txt) == \A i \in 1..Len(txt) : IsSpace(Char(txt, i))

NoiseMatchesContract ==
    pc = "done" =>
        /\ is_metadata = ( /\ Len(txt0) > 0
                           /\ ~AllWhitespace(txt0)
                           /\ Len(txt0) < 150
                           /\ 100 * AlphabeticCount(txt0) < 85 * Len(txt0) )
        /\ (Len(txt0) >= 150 => is_metadata = FALSE)
        /\ (AllWhitespace(txt0) => is_metadata = FALSE)

\* a text of 150 or more characters under the ratio is classified, and so is
\* one of 149 characters: both sides of the length limit are reached
NoiseWitness ==
    /\ pc = "done"
    /\ Len(txt0) = 150
    /\ 100 * AlphabeticCount(txt0) < 85 * Len(txt0)
    /\ ~AllWhitespace(txt0)
    /\ is_metadata = FALSE

(***************************************************************************)
(* find_instances_xml: speaker resolution                                  *)
(***************************************************************************)
\* the outcome of a call that raised an exception
RAISED == "<raised>"

\* mp_db[mp_db['name'].notnull()]["name"], or [] without a roster
Names(db) == IF db.is_none THEN <<>> ELSE SelectSeq(db.name, LAMBDA name : name # NULL)

\* whether name.split() has any token
HasToken(name) == Strip(name) # ""

\* name.split()[-1]
LastToken(name) ==
    LET s == Strip(name)
        ws == {i \in 1..Len(s) : IsSpace(Char(s, i))}
    IN  IF ws = {} THEN s ELSE SubSeq(s, SetMax(ws) + 1, Len(s))

\* a resolver that stops at the first name it finds
KeepFirstPerson(found, name) == IF found = NULL THEN name ELSE found

\* person = name, inside a loop that has no break
AssignPerson(found, name) == name

RECURSIVE FullNameLoop(_, _, _, _)
\* for name in names: if name in matched_txt
FullNameLoop(names, txt, i, found) ==
    IF i > Len(names) THEN found
    ELSE FullNameLoop(names, txt, i + 1,
            IF IsSubstr(names[i], txt) THEN AssignPerson(found, names[i]) ELSE found)

RECURSIVE UpperNameLoop(_, _, _, _)
\* for name in names: if name.upper() in matched_txt
UpperNameLoop(names, txt, i, found) ==
    IF i > Len(names) THEN found
    ELSE UpperNameLoop(names, txt, i + 1,
            IF IsSubstr(Upper(names[i]), txt) THEN AssignPerson(found, names[i]) ELSE found)

RECURSIVE LastNameLoop(_, _, _, _)
\* for name in names: last_name = " " + name.split()[-1]; if ... elif ...
LastNameLoop(names, txt, i, found) ==
    IF i > Len(names) THEN found
    ELSE IF ~HasToken(names[i]) THEN RAISED
    ELSE LET last_name == " " \o LastToken(names[i])
         IN  LastNameLoop(names, txt, i + 1,
                IF IsSubstr(last_name, txt) THEN AssignPerson(found, names[i])
                ELSE IF IsSubstr(Upper(last_name), txt) THEN AssignPerson(found, names[i])
                ELSE found)

\* lines 65-83: the three loops over names
ResolvePerson(names, txt) ==
    LET p1 == FullNameLoop(names, txt, 1, NULL)
        p2 == IF p1 = NULL THEN UpperNameLoop(names, txt, 1, p1) ELSE p1
    IN  IF p2 = NULL THEN LastNameLoop(names, txt, 1, p2) ELSE p2

(***************************************************************************)
(* Specification SpecResolve: the resolution of one matched text           *)
(***************************************************************************)
MaxRoster == 3

\* roster cells: names, the empty string and a null cell
NamePool == {"Anna Ek", "Bo Ek", "Eva Berg", "", NULL}

MatchedPool ==
    {"Herr Ek:", "ANNA EK:", "Anna Ek och Bo Ek", "Fru BERG anf", "Herr Ekman",
     "Herr talmannen", "EVA BERG och Bo Ek", ""}

RECURSIVE SeqsUpTo(_, _)
\* the sequences over S of length n or less
SeqsUpTo(S, n) ==
    IF n = 0 THEN {<<>>}
    ELSE LET shorter == SeqsUpTo(S, n - 1)
         IN  shorter \cup {Append(q, x) : q \in shorter, x \in S}

Rosters == {[is_none |-> FALSE, name |-> col] : col \in SeqsUpTo(NamePool, MaxRoster)} \cup {NoRoster}

ResolveInit ==
    /\ pc = "resolve"
    /\ mp_db \in Rosters
    /\ matched_txt \in MatchedPool
    /\ person = NULL
    /\ NoiseIdle /\ DocIdle /\ TeiIdle /\ CorpusIdle

Resolve ==
    /\ pc = "resolve"
    /\ person' = ResolvePerson(Names(mp_db), matched_txt)
    /\ pc' = "done"
    /\ UNCHANGED <<mp_db, matched_txt, noiseVars, docVars, teiVars, corpusVars>>

ResolveNext == Resolve

SpecResolve == ResolveInit /\ [][ResolveNext]_vars

(***************************************************************************)
(* C4: the resolved speaker is the last roster entry of the first tier     *)
(* that has a match: tier 1 the names occurring in the matched text, tier  *)
(* 2 the names whose upper-cased form occurs, tier 3 the names whose       *)
(* space-prefixed last token occurs as written or upper-cased; none when   *)
(* no tier matches.                                                        *)
(***************************************************************************)
Tier1(names, txt) == {i \in 1..Len(names) : IsSubstr(names[i], txt)}

Tier2(names, txt) == {i \in 1..Len(names) : IsSubstr(Upper(names[i]), txt)}

Tier3(names, txt) ==
    {i \in 1..Len(names) :
        \/ IsSubstr(" " \o LastToken(names[i]), txt)
        \/ IsSubstr(Upper(" " \o LastToken(names[i])), txt)}

TieredReference(names, txt) ==
    IF Tier1(names, txt) # {} THEN names[SetMax(Tier1(names, txt))]
    ELSE IF Tier2(names, txt) # {} THEN names[SetMax(Tier2(names, txt))]
    ELSE IF Tier3(names, txt) # {} THEN names[SetMax(Tier3(names, txt))]
    ELSE NULL

ResolutionIsTiered ==
    pc = "done" => person = TieredReference(Names(mp_db), matched_txt)

\* two roster entries occur in the matched text, and the later one is resolved
ResolutionWitness ==
    /\ pc = "done"
    /\ Cardinality(Tier1(Names(mp_db), matched_txt)) >= 2
    /\ \E i, j \in Tier1(Names(mp_db), matched_txt) :
            /\ i < j /\ Names(mp_db)[i] # "" /\ Names(mp_db)[j] # ""
            /\ Names(mp_db)[i] # Names(mp_db)[j] /\ person = Names(mp_db)[j]

(***************************************************************************)
(* C5: a roster entry whose name is empty or null is excluded before       *)
(* matching: it is never the resolved speaker, resolution never fails on   *)
(* it, and the result is that of the roster without such entries.          *)
(***************************************************************************)
NonBlankNames(db) ==
    IF db.is_none THEN <<>> ELSE SelectSeq(db.name, LAMBDA name : name # NULL /\ name # "")

BlankNamesExcluded ==
    pc = "done" =>
        /\ person # ""
        /\ person # RAISED
        /\ person = ResolvePerson(NonBlankNames(mp_db), matched_txt)

(***************************************************************************)
(* find_instances_xml                                                      *)
(*                                                                         *)
(* A content block is the sequence of its text blocks' texts (a string, or *)
(* NULL for a text block without text); the document is the sequence of    *)
(* its content blocks.  A pattern is a regular expression of literal       *)
(* characters and ".", which matches any character but a line break.       *)
(***************************************************************************)
RECURSIVE JoinLines(_)
\* '\n'.join(texts)
JoinLines(texts) ==
    IF texts = <<>> THEN ""
    ELSE IF Len(texts) = 1 THEN texts[1]
    ELSE texts[1] \o "\n" \o JoinLines(Tail(texts))

\* '\n'.join(content_block.itertext()): itertext leaves out the absent texts
ContentTxt(content_block) == JoinLines(SelectSeq(content_block, LAMBDA t : t # NULL))

\* whether exp matches txt at position i (1-based)
MatchAt(pattern, txt, i) ==
    \A k \in 1..Len(pattern) :
        IF Char(pattern, k) = "." THEN Char(txt, i + k - 1) # "\n"
        ELSE Char(pattern, k) = Char(txt, i + k - 1)

RECURSIVE FindIterFrom(_, _, _)
\* exp.finditer(txt): the start positions of the non-overlapping matches, left
\* to right; after an empty match the scan moves on by one character
FindIterFrom(pattern, txt, i) ==
    IF i > Len(txt) - Len(pattern) + 1 THEN <<>>
    ELSE IF MatchAt(pattern, txt, i)
         THEN <<i>> \o FindIterFrom(pattern, txt, i + (IF Len(pattern) = 0 THEN 1 ELSE Len(pattern)))
         ELSE FindIterFrom(pattern, txt, i + 1)

FindIter(pattern, txt) == FindIterFrom(pattern, txt, 1)

\* hashlib.md5(pattern.encode("utf-8")).hexdigest()[:16]: a function of the
\* pattern's text (two patterns of the model never collide)
PatternDigest(pattern) == "md5:" \o pattern

\* lines 64-88: the row of one match
InstanceRow(doc_id, pattern, txt, names) ==
    [package_id |-> doc_id, pattern |-> PatternDigest(pattern),
     txt |-> txt, person |-> ResolvePerson(names, txt)]

\* lines 63-88: the rows of one content block's matches
MatchRows(doc_id, pattern, content_txt, names) ==
    LET starts == FindIter(pattern, content_txt)
    IN  [m \in 1..Len(starts) |->
            InstanceRow(doc_id, pattern,
                        SubSeq(content_txt, starts[m], starts[m] + Len(pattern) - 1), names)]

\* a scan that also reads the blocks classified as metadata
BlockRowsUnfiltered(doc_id, pattern, content_block, names) ==
    MatchRows(doc_id, pattern, ContentTxt(content_block), names)

\* lines 60-63: a block classified as metadata is not scanned
BlockRows(doc_id, pattern, content_block, names) ==
    LET content_txt == ContentTxt(content_block)
    IN  IF ~_is_metadata_block(content_txt)
        THEN MatchRows(doc_id, pattern, content_txt, names)
        ELSE <<>>

RECURSIVE BlockLoop(_, _, _, _, _)
\* for content_block in root
BlockLoop(doc_id, pattern, blocks, names, b) ==
    IF b > Len(blocks) THEN <<>>
    ELSE BlockRows(doc_id, pattern, blocks[b], names)
         \o BlockLoop(doc_id, pattern, blocks, names, b + 1)

RECURSIVE PatternLoop(_, _, _, _, _)
\* for row in pattern_db.iterrows()
PatternLoop(doc_id, patterns, blocks, names, p) ==
    IF p > Len(patterns) THEN <<>>
    ELSE BlockLoop(doc_id, patterns[p], blocks, names, 1)
         \o PatternLoop(doc_id, patterns, blocks, names, p + 1)

\* the rows find_instances_xml returns
find_instances_xml(blocks, patterns, doc_id, db) ==
    PatternLoop(doc_id, patterns, blocks, Names(db), 1)

(***************************************************************************)
(* create_tei, lines 218-250: the walk over the text blocks                *)
(***************************************************************************)
\* type(current_speaker) == str
IsStr(v) == v # NULL /\ v # NAN

RECURSIVE TextBlocksFrom(_, _)
\* the text blocks the walk visits, in order: those of the content blocks
\* whose joined text is not empty (lines 222-230)
TextBlocksFrom(blocks, b) ==
    IF b > Len(blocks) THEN <<>>
    ELSE (IF ContentTxt(blocks[b]) = "" THEN <<>>
          ELSE [t \in 1..Len(blocks[b]) |-> [cb |-> b, tb |-> t, text |-> blocks[b][t]]])
         \o TextBlocksFrom(blocks, b + 1)

TextBlocks(blocks) == TextBlocksFrom(blocks, 1)

\* a test that lets every row match
MatchesAlways(match_row, paragraph) == TRUE

\* matchable_txt in paragraph
RowMatches(match_row, paragraph) == IsSubstr(match_row.txt, paragraph)

\* lines 238-244: the speaker of a matching row and the u element it opens
OpenTurn(st, match_row) ==
    LET speaker == IF IsStr(match_row.person) THEN match_row.person ELSE NULL
    IN  [current_speaker |-> speaker,
         body_div |-> Append(st.body_div,
                        [who |-> IF speaker # NULL THEN speaker ELSE "UNK", segs |-> <<>>])]

RECURSIVE InstanceLoopBreak(_, _, _, _)
\* a loop that stops at the first matching row
InstanceLoopBreak(rows, paragraph, r, st) ==
    IF r > Len(rows) THEN st
    ELSE IF RowMatches(rows[r], paragraph) THEN OpenTurn(st, rows[r])
    ELSE InstanceLoopBreak(rows, paragraph, r + 1, st)

RECURSIVE InstanceLoop(_, _, _, _)
\* for ix, match_row in instance_rows (lines 234-244)
InstanceLoop(rows, paragraph, r, st) ==
    IF r > Len(rows) THEN st
    ELSE InstanceLoop(rows, paragraph, r + 1,
            IF RowMatches(rows[r], paragraph) THEN OpenTurn(st, rows[r]) ELSE st)

\* lines 247-248: seg = etree.SubElement(u, "seg"); seg.text = paragraph
AppendSeg(div, paragraph) ==
    [div EXCEPT ![Len(div)].segs = Append(@, paragraph)]

\* lines 218-221: current_speaker = None and the leading u of who="UNK"
TeiBegin ==
    /\ pc = "create_tei"
    /\ done_paragraphs' = 0
    /\ current_speaker' = NULL
    /\ body_div' = <<[who |-> "UNK", segs |-> <<>>]>>
    /\ pc' = "tei"
    /\ UNCHANGED <<noiseVars, resolveVars, docVars, corpusVars>>

\* lines 232-248 for one text block: the walk's state after it, or RAISED_WALK
\* when matchable_txt in paragraph raises TypeError (paragraph is None)
WalkParagraph(st, paragraph, rows) ==
    IF paragraph = "" THEN st
    ELSE IF paragraph = NULL /\ rows # <<>> THEN [st EXCEPT !.raised = TRUE]
    ELSE IF paragraph = NULL THEN [st EXCEPT !.body_div = AppendSeg(@, NULL)]
    ELSE LET after == InstanceLoop(rows, paragraph, 1,
                        [current_speaker |-> st.current_speaker, body_div |-> st.body_div])
         IN  [st EXCEPT !.current_speaker = after.current_speaker,
                        !.body_div = AppendSeg(after.body_div, paragraph)]

\* one text block of the walk (lines 231-248)
TeiStep ==
    /\ pc = "tei"
    /\ done_paragraphs < Len(TextBlocks(root))
    /\ LET st == WalkParagraph([current_speaker |-> current_speaker, body_div |-> body_div,
                                raised |-> FALSE],
                               TextBlocks(root)[done_paragraphs + 1].text, instance_db)
       IN  IF st.raised
           THEN /\ pc' = "raised"
                /\ UNCHANGED <<done_paragraphs, current_speaker, body_div>>
           ELSE /\ done_paragraphs' = done_paragraphs + 1
                /\ current_speaker' = st.current_speaker
                /\ body_div' = st.body_div
                /\ UNCHANGED pc
    /\ UNCHANGED <<noiseVars, resolveVars, docVars, corpusVars>>

\* line 250: return tei
TeiReturn ==
    /\ pc = "tei"
    /\ done_paragraphs = Len(TextBlocks(root))
    /\ pc' = "done"
    /\ UNCHANGED <<noiseVars, resolveVars, docVars, teiVars, corpusVars>>

RECURSIVE WalkFrom(_, _, _, _)
\* the walk over all text blocks (lines 222-248)
WalkFrom(paragraphs, rows, k, st) ==
    IF k > Len(paragraphs) \/ st.raised THEN st
    ELSE WalkFrom(paragraphs, rows, k + 1, WalkParagraph(st, paragraphs[k].text, rows))

\* the u elements of the tree create_tei returns for a document and a table
TeiBody(blocks, rows) ==
    WalkFrom(TextBlocks(blocks), rows, 1,
             [current_speaker |-> NULL, body_div |-> <<[who |-> "UNK", segs |-> <<>>]>>,
              raised |-> FALSE])

(***************************************************************************)
(* Element trees                                                           *)
(*                                                                         *)
(* A tree is the sequence of its elements in document order; an element    *)
(* records its tag, attributes, text and the index of its parent (0: it    *)
(* has none).  No element of these trees has a tail.                       *)
(***************************************************************************)
\* the subtree sub placed under the root of a tree that holds off elements
Shift(sub, off) ==
    [i \in 1..Len(sub) |-> [sub[i] EXCEPT !.parent = IF @ = 0 THEN 1 ELSE @ + off]]

RECURSIVE Graft(_, _)
\* etree.SubElement / append: the subtrees become the root's next children
Graft(t, kids) ==
    IF kids = <<>> THEN t ELSE Graft(t \o Shift(Head(kids), Len(t)), Tail(kids))

\* an element with its attributes, text and children
Element(tag, attrib, text, kids) ==
    Graft(<<[tag |-> tag, attrib |-> attrib, text |-> text, parent |-> 0]>>, kids)

NoAttrib == <<>>

\* metadata.get(key, default), the dict a function on its keys
Get(metadata, key, default) == IF key \in DOMAIN metadata THEN metadata[key] ELSE default

\* metadata[key] = value
Put(metadata, key, value) ==
    [k \in DOMAIN metadata \cup {key} |-> IF k = key THEN value ELSE metadata[k]]

RECURSIVE Replace(_, _, _)
\* s.replace(old, new), old not empty
Replace(s, old, new) ==
    IF Len(s) < Len(old) THEN s
    ELSE IF SubSeq(s, 1, Len(old)) = old
         THEN new \o Replace(SubSeq(s, Len(old) + 1, Len(s)), old, new)
         ELSE Char(s, 1) \o Replace(SubSeq(s, 2, Len(s)), old, new)

\* s.split(sep)[0], sep one character
SplitFirst(s, sep) ==
    LET at == {i \in 1..Len(s) : Char(s, i) = sep}
    IN  IF at = {} THEN s ELSE SubSeq(s, 1, SetMin(at) - 1)

DecimalDigits == <<"0", "1", "2", "3", "4", "5", "6", "7", "8", "9">>

RECURSIVE IntToStr(_)
\* str(year), year >= 0
IntToStr(n) ==
    IF n < 10 THEN DecimalDigits[n + 1] ELSE IntToStr(n \div 10) \o DecimalDigits[(n % 10) + 1]

DefaultYear == 2020

(***************************************************************************)
(* _pc_header, lines 133-165                                               *)
(***************************************************************************)
_pc_header(metadata) ==
    LET title == Element("title", NoAttrib, Get(metadata, "document_title", "N/A"), <<>>)
        titleStmt == Element("titleStmt", NoAttrib, NULL, <<title>>)
        edition == Element("edition", NoAttrib, Get(metadata, "edition", "N/A"), <<>>)
        editionStmt == Element("editionStmt", NoAttrib, NULL, <<edition>>)
        extent == Element("extent", NoAttrib, NULL, <<>>)
        authority == Element("authority", NoAttrib, Get(metadata, "authority", "N/A"), <<>>)
        publicationStmt == Element("publicationStmt", NoAttrib, NULL, <<authority>>)
        sourceTitle == Element("title", NoAttrib, Get(metadata, "document_title", "N/A"), <<>>)
        sourceBibl == Element("bibl", NoAttrib, NULL, <<sourceTitle>>)
        sourceDesc == Element("sourceDesc", NoAttrib, NULL, <<sourceBibl>>)
        fileDesc == Element("fileDesc", NoAttrib, NULL,
                        <<titleStmt>>
                        \o (IF "edition" \in DOMAIN metadata THEN <<editionStmt>> ELSE <<>>)
                        \o <<extent, publicationStmt, sourceDesc>>)
        correction_p == Element("p", NoAttrib,
                            Get(metadata, "correction", "No correction of source texts was performed."),
                            <<>>)
        correction == Element("correction", NoAttrib, NULL, <<correction_p>>)
        editorialDecl == Element("editorialDecl", NoAttrib, NULL, <<correction>>)
        encodingDesc == Element("encodingDesc", NoAttrib, NULL, <<editorialDecl>>)
    IN  Element("teiHeader", NoAttrib, NULL, <<fileDesc, encodingDesc>>)

(***************************************************************************)
(* create_tei, lines 189-250: the tree it returns                          *)
(***************************************************************************)
\* a u element with its seg children
TurnElement(u) ==
    Element("u", <<<<"who", u.who>>>>, NULL,
            [i \in 1..Len(u.segs) |-> Element("seg", NoAttrib, u.segs[i], <<>>)])

create_tei(blocks, metadata0, rows) ==
    LET id == metadata0["protocol"]
        title == Replace(SplitFirst(Replace(id, "_", " "), "-"), "prot", "Protokoll")
        metadata1 == Put(metadata0, "document_title", title)
        date == IF "date" \in DOMAIN metadata1 THEN metadata1["date"]
                ELSE IntToStr(Get(metadata1, "year", DefaultYear)) \o "-01-01"
        head == Element("head", NoAttrib, SplitFirst(id, "."), <<>>)
        docDate == Element("docDate", <<<<"when", date>>>>, date, <<>>)
        preface == Element("div", <<<<"type", "preface">>>>, NULL, <<head, docDate>>)
        front == Element("front", NoAttrib, NULL, <<preface>>)
        turns == TeiBody(blocks, rows).body_div
        body_division == Element("div", NoAttrib, NULL,
                            [i \in 1..Len(turns) |-> TurnElement(turns[i])])
        body == Element("body", NoAttrib, NULL, <<body_division>>)
        text == Element("text", NoAttrib, NULL, <<front, body>>)
    IN  Element("TEI", NoAttrib, NULL, <<_pc_header(metadata1), text>>)

(***************************************************************************)
(* create_parlaclarin, lines 167-187                                       *)
(***************************************************************************)
\* lines 172-179: the corpus tree before the pruning loop
AssembleCorpus(documents, metadata) ==
    Element("teiCorpus", <<<<"xmlns", "http://www.tei-c.org/ns/1.0">>>>, NULL,
            <<_pc_header(metadata)>>
            \o [d \in 1..Len(documents) |->
                    create_tei(documents[d].root, documents[d].metadata, documents[d].instance_db)])

RECURSIVE IsUnder(_, _, _)
\* whether element i is element n or one of its descendants
IsUnder(t, i, n) == i = n \/ (t[i].parent # 0 /\ IsUnder(t, t[i].parent, n))

\* the XPath string-value of element n: the texts under it, in document order
StringValue(t, n) ==
    JoinPieces([i \in 1..Len(t) |-> IF IsUnder(t, i, n) /\ t[i].text # NULL THEN t[i].text ELSE ""],
               1, Len(t))

\* runs of whitespace become one space
CollapseSpace(s) ==
    JoinPieces([i \in 1..Len(s) |->
                    IF ~IsSpace(Char(s, i)) THEN Char(s, i)
                    ELSE IF i > 1 /\ IsSpace(Char(s, i - 1)) THEN "" ELSE " "],
               1, Len(s))

\* xml_element.xpath('normalize-space()')
NormalizeSpace(t, n) == CollapseSpace(Strip(StringValue(t, n)))

FirstChild(t, n) ==
    LET kids == {i \in 1..Len(t) : t[i].parent = n}
    IN  IF kids = {} THEN 0 ELSE SetMin(kids)

NextSibling(t, n) ==
    LET later == {i \in 1..Len(t) : i > n /\ t[n].parent # 0 /\ t[i].parent = t[n].parent}
    IN  IF later = {} THEN 0 ELSE SetMin(later)

RECURSIVE BackOff(_, _, _)
\* back off through the parents to the next one that has a following sibling;
\* the walk ends at the top element and at an element without a parent
BackOff(t, n, top) ==
    LET up == t[n].parent
    IN  IF up = 0 THEN 0
        ELSE IF up = top THEN 0
        ELSE IF NextSibling(t, up) # 0 THEN NextSibling(t, up)
        ELSE BackOff(t, up, top)

\* the element the depth-first iterator of lxml moves to from element n: its
\* first child, else its next sibling, else the next sibling of an ancestor
TraverseToNext(t, n, top) ==
    IF FirstChild(t, n) # 0 THEN FirstChild(t, n)
    ELSE IF n # top /\ NextSibling(t, n) # 0 THEN NextSibling(t, n)
    ELSE BackOff(t, n, top)

\* xml_element.getparent().remove(xml_element): the element and what is under
\* it leave the tree and stay linked to each other
Remove(t, n) == [t EXCEPT ![n].parent = 0]

\* the elements still in the corpus tree
InTree(t) == {i \in 1..Len(t) : IsUnder(t, i, 1)}

\* lines 172-179, and the iterator of line 181 before its first element
Assemble ==
    /\ pc = "create_parlaclarin"
    /\ tree' = AssembleCorpus(teis, corpus_metadata)
    /\ next_node' = 1
    /\ pass' = 1
    /\ pc' = "prune"
    /\ UNCHANGED <<teis, corpus_metadata, removed, noiseVars, resolveVars, docVars, teiVars>>

\* lines 181-184, one turn of the loop: the iterator yields its element and
\* moves on from it in the tree as it is then; the body removes the element
\* if its normalized text is empty (getparent() of the root is None, and
\* None.remove raises AttributeError)
PruneStep ==
    /\ pc = "prune"
    /\ next_node # 0
    /\ LET xml_element == next_node
           content == NormalizeSpace(tree, xml_element)
       IN  /\ next_node' = TraverseToNext(tree, xml_element, 1)
           /\ IF content # ""
              THEN UNCHANGED <<tree, removed, pc>>
              ELSE IF tree[xml_element].parent = 0
              THEN pc' = "raised" /\ UNCHANGED <<tree, removed>>
              ELSE /\ tree' = Remove(tree, xml_element)
                   /\ removed' = Append(removed, <<pass, xml_element>>)
                   /\ UNCHANGED pc
    /\ UNCHANGED <<teis, corpus_metadata, pass, noiseVars, resolveVars, docVars, teiVars>>

\* the iterator is exhausted: the loop ends (the tree is serialized, line 186)
PruneEnd ==
    /\ pc = "prune"
    /\ next_node = 0
    /\ pc' = "pruned"
    /\ UNCHANGED <<corpusVars, noiseVars, resolveVars, docVars, teiVars>>

\* the loop of lines 181-184 run a second time on the tree the first run left
PruneAgain ==
    /\ pc = "pruned"
    /\ pass = 1
    /\ pass' = 2
    /\ next_node' = 1
    /\ pc' = "prune"
    /\ UNCHANGED <<teis, corpus_metadata, tree, removed, noiseVars, resolveVars, docVars, teiVars>>

(***************************************************************************)
(* Specification SpecCorpus: create_parlaclarin on lists of documents      *)
(***************************************************************************)
MaxDocuments == 2

DocumentMetadata == [protocol |-> "prot_1951__ak__17", year |-> 1951, chamber |-> "ak"]

\* what create_tei is given: a document without text, a speech, a document
\* whose paragraphs are each matched by two rows, and one that starts with
\* a paragraph of whitespace
DocumentPool ==
    { [root |-> <<>>, instance_db |-> <<>>, metadata |-> DocumentMetadata],
      [root |-> << <<"Fru Berg: ja">> >>, metadata |-> DocumentMetadata,
       instance_db |-> <<[package_id |-> "prot-1951", pattern |-> PatternDigest("Fru Berg:"),
                          txt |-> "Fru Berg:", person |-> "Eva Berg"]>>],
      [root |-> << <<"Herr Ek: ja", "Herr Ek: nej">> >>, metadata |-> DocumentMetadata,
       instance_db |-> <<[package_id |-> "prot-1951", pattern |-> PatternDigest("Ek:"),
                          txt |-> "Ek:", person |-> NULL],
                         [package_id |-> "prot-1951", pattern |-> PatternDigest("Ek:"),
                          txt |-> "Ek:", person |-> NULL]>>],
      [root |-> << <<" ">>, <<"Fru Berg: ja">> >>, metadata |-> DocumentMetadata,
       instance_db |-> <<[package_id |-> "prot-1951", pattern |-> PatternDigest("Fru Berg:"),
                          txt |-> "Fru Berg:", person |-> NAN]>>] }

\* the corpus metadata of gen_parlaclarin_corpus, and a dict without edition
CorpusMetadataPool == { [edition |-> "0.1.0"], [authority |-> "Riksdagen"] }

CorpusInit ==
    /\ pc = "create_parlaclarin"
    /\ teis \in SeqsUpTo(DocumentPool, MaxDocuments)
    /\ corpus_metadata \in CorpusMetadataPool
    /\ tree = <<>> /\ next_node = 0 /\ pass = 0 /\ removed = <<>>
    /\ NoiseIdle /\ ResolveIdle /\ DocIdle /\ TeiIdle

CorpusNext == Assemble \/ PruneStep \/ PruneEnd \/ PruneAgain

SpecCorpus == CorpusInit /\ [][CorpusNext]_vars

(***************************************************************************)
(* Specification SpecTei: create_tei on bounded documents and tables       *)
(***************************************************************************)
MaxBlocks == 2

MaxRows == 2

\* content blocks: speeches, a block with an empty and one with an absent
\* text, a page header and a block whose only text is empty
BlockPool ==
    { <<"Herr Ek: ja", "Herr Ek: nej">>, <<"Fru Berg: ja">>, <<"jajajaja tack herr talman", "", "ja", "nej", "tack", "jo">>,
      <<NULL, "ja">>, <<"Herr Ek: 12-13">>, <<"">> }

Documents == SeqsUpTo(BlockPool, MaxBlocks)

\* rows of an instance table: the person a name, None or NaN
RowPool ==
    { [package_id |-> "prot-1951", pattern |-> PatternDigest(t), txt |-> t, person |-> who] :
        t \in {"Ek:", "Fru Berg:"}, who \in {"Bo Ek", "Anna Ek", NAN} }
    \cup { [package_id |-> "prot-1951", pattern |-> PatternDigest("ja"), txt |-> "ja", person |-> NULL] }

TeiInit ==
    /\ pc = "create_tei"
    /\ root \in Documents
    /\ instance_db \in SeqsUpTo(RowPool, MaxRows)
    /\ pattern_db = <<>>
    /\ protocol_id = "prot-1951"
    /\ NoiseIdle /\ ResolveIdle /\ TeiIdle /\ CorpusIdle

TeiNext == TeiBegin \/ TeiStep \/ TeiReturn

SpecTei == TeiInit /\ [][TeiNext]_vars

(***************************************************************************)
(* Specification SpecPipeline: find_instances_xml, then create_tei on the  *)
(* same document with the rows found                                       *)
(***************************************************************************)
MaxPatterns == 2

PatternPool == {"Ek:", "Herr ..", "ja.a"}

PipelineRosters ==
    { NoRoster,
      [is_none |-> FALSE, name |-> <<"Anna Ek", "Bo Ek">>],
      [is_none |-> FALSE, name |-> <<"Bo Ek", NULL, "Eva Berg">>] }

PipelineInit ==
    /\ pc = "find_instances_xml"
    /\ root \in Documents
    /\ pattern_db \in SeqsUpTo(PatternPool, MaxPatterns)
    /\ protocol_id \in {"prot-1951"}
    /\ mp_db \in PipelineRosters
    /\ instance_db = <<>>
    /\ matched_txt = "" /\ person = NULL
    /\ NoiseIdle /\ TeiIdle /\ CorpusIdle

\* the call of find_instances_xml (lines 36-90)
FindInstances ==
    /\ pc = "find_instances_xml"
    /\ LET rows == find_instances_xml(root, pattern_db, protocol_id, mp_db)
       IN  IF \E r \in 1..Len(rows) : rows[r].person = RAISED
           THEN pc' = "raised" /\ UNCHANGED instance_db
           ELSE pc' = "create_tei" /\ instance_db' = rows
    /\ UNCHANGED <<root, pattern_db, protocol_id, noiseVars, resolveVars, teiVars, corpusVars>>

PipelineNext == FindInstances \/ TeiBegin \/ TeiStep \/ TeiReturn

SpecPipeline == PipelineInit /\ [][PipelineNext]_vars

(***************************************************************************)
(* Claims about create_tei (SpecTei)                                       *)
(***************************************************************************)
\* the step from this state to the next walks one text block
WalksParagraph == pc = "tei" /\ pc' = "tei" /\ done_paragraphs' = done_paragraphs + 1

\* the text of the text block the next step walks
NextParagraph == TextBlocks(root)[done_paragraphs + 1].text

\* the rows of the table whose matched text occurs in txt
MatchingRows(txt) == {r \in 1..Len(instance_db) : IsSubstr(instance_db[r].txt, txt)}

LastTurn(div) == div[Len(div)]

(***************************************************************************)
(* C1: a paragraph with non-empty text that some instance row matches has  *)
(* its segment placed in a newly opened turn labelled with the person of   *)
(* the last matching row in table order if that is a string, and "UNK"     *)
(* otherwise.                                                              *)
(***************************************************************************)
LastMatchingRowLabelsTurn ==
    [][ (WalksParagraph /\ NextParagraph # "" /\ NextParagraph # NULL
            /\ MatchingRows(NextParagraph) # {}) =>
        LET last == instance_db[SetMax(MatchingRows(NextParagraph))]
        IN  /\ Len(body_div') > Len(body_div)
            /\ LastTurn(body_div').segs = <<NextParagraph>>
            /\ LastTurn(body_div').who = IF IsStr(last.person) THEN last.person ELSE "UNK"
      ]_vars

\* the paragraph just walked is matched by two rows of different persons, the
\* earlier one a name, and the turn holding its segment has the later one's label
LastMatchingRowWitness ==
    /\ pc = "tei"
    /\ done_paragraphs >= 1
    /\ LET paragraph == TextBlocks(root)[done_paragraphs].text
       IN  /\ paragraph # "" /\ paragraph # NULL
           /\ Cardinality(MatchingRows(paragraph)) = 2
           /\ LET first == instance_db[SetMin(MatchingRows(paragraph))]
                  last == instance_db[SetMax(MatchingRows(paragraph))]
              IN  /\ IsStr(first.person)
                  /\ first.person # last.person
                  /\ LastTurn(body_div).segs = <<paragraph>>
                  /\ LastTurn(body_div).who = IF IsStr(last.person) THEN last.person ELSE "UNK"

(***************************************************************************)
(* C2: a paragraph (with non-empty text) that no instance row matches      *)
(* opens no turn and its segment is appended to the most recently opened   *)
(* turn; so when the table's one row, of a resolved speaker, matches only  *)
(* the first paragraph and n non-matching paragraphs follow, the tree has  *)
(* exactly one turn not labelled "UNK" and it holds n + 1 segments.        *)
(***************************************************************************)
\* the texts the walk turns into segments
SegmentTexts == SelectSeq([i \in 1..Len(TextBlocks(root)) |-> TextBlocks(root)[i].text],
                          LAMBDA t : t # "")

OnlyFirstParagraphMatches ==
    /\ Len(instance_db) = 1
    /\ IsStr(instance_db[1].person)
    /\ Len(SegmentTexts) >= 1
    /\ \A i \in 1..Len(SegmentTexts) : SegmentTexts[i] # NULL
    /\ \A i \in 1..Len(SegmentTexts) : IsSubstr(instance_db[1].txt, SegmentTexts[i]) <=> i = 1

NamedTurns(div) == {i \in 1..Len(div) : div[i].who # "UNK"}

TurnContinuity ==
    [][ /\ (WalksParagraph /\ NextParagraph # "" /\ NextParagraph # NULL
                /\ MatchingRows(NextParagraph) = {}) =>
            /\ Len(body_div') = Len(body_div)
            /\ \A i \in 1..(Len(body_div) - 1) : body_div'[i] = body_div[i]
            /\ LastTurn(body_div').who = LastTurn(body_div).who
            /\ LastTurn(body_div').segs = Append(LastTurn(body_div).segs, NextParagraph)
        /\ (pc = "tei" /\ pc' = "done" /\ OnlyFirstParagraphMatches) =>
            /\ Cardinality(NamedTurns(body_div)) = 1
            /\ \A i \in NamedTurns(body_div) : Len(body_div[i].segs) = Len(SegmentTexts)
      ]_vars

\* a returned tree whose one named turn holds the first paragraph and the
\* five non-matching paragraphs after it
TurnContinuityWitness ==
    /\ pc = "done"
    /\ OnlyFirstParagraphMatches
    /\ Len(SegmentTexts) = 6
    /\ Len(body_div) = 2
    /\ body_div[2].who = instance_db[1].person
    /\ body_div[2].segs = SegmentTexts

(***************************************************************************)
(* C3: every turn but the leading "UNK" turn holds at least one segment    *)
(* once the next turn is opened or the assembly has ended.                 *)
(***************************************************************************)
ClosedTurnsHaveSegments ==
    \A i \in 2..Len(body_div) :
        (i < Len(body_div) \/ pc = "done") => Len(body_div[i].segs) >= 1

(***************************************************************************)
(* C11: the segment texts of all turns, read in tree order, are one for    *)
(* one and in order the texts of the paragraphs with non-empty text of the *)
(* content blocks with non-empty joined text; a paragraph with empty or    *)
(* absent text and an empty content block add no segment, and the walk     *)
(* does not fail.                                                          *)
(***************************************************************************)
RECURSIVE AllSegments(_)
\* the segment texts of the turns, in tree order
AllSegments(div) ==
    IF div = <<>> THEN <<>> ELSE Head(div).segs \o AllSegments(Tail(div))

HasText(t) == t # NULL /\ t # ""

RECURSIVE ParagraphTexts(_)
\* the non-empty paragraph texts of the content blocks that have some text
ParagraphTexts(blocks) ==
    IF blocks = <<>> THEN <<>>
    ELSE (IF \E t \in 1..Len(Head(blocks)) : HasText(Head(blocks)[t])
          THEN SelectSeq(Head(blocks), HasText) ELSE <<>>)
         \o ParagraphTexts(Tail(blocks))

SegmentConservation ==
    /\ pc # "raised"
    /\ pc = "done" => AllSegments(body_div) = ParagraphTexts(root)

(***************************************************************************)
(* Claims about find_instances_xml and the pipeline (SpecPipeline)         *)
(***************************************************************************)
\* the positions where the pattern matches the text
MatchPositions(pattern, txt) ==
    {i \in 1..(Len(txt) - Len(pattern) + 1) : MatchAt(pattern, txt, i)}

\* the non-overlapping matches, scanning from the left: a match position is
\* taken iff no taken match before it reaches into it
NonOverlapping(pattern, txt) ==
    CHOOSE S \in SUBSET MatchPositions(pattern, txt) :
        \A i \in MatchPositions(pattern, txt) :
            i \in S <=> \A j \in S : j < i => j + Len(pattern) <= i

\* (pattern, block, match position) of every match in a block that is not noise
MatchTriples ==
    UNION { IF _is_metadata_block(ContentTxt(root[pb[2]])) THEN {}
            ELSE {<<pb[1], pb[2], i>> : i \in NonOverlapping(pattern_db[pb[1]], ContentTxt(root[pb[2]]))} :
            pb \in (1..Len(pattern_db)) \X (1..Len(root)) }

TripleBefore(s, t) ==
    \/ s[1] < t[1]
    \/ s[1] = t[1] /\ s[2] < t[2]
    \/ s[1] = t[1] /\ s[2] = t[2] /\ s[3] < t[3]

\* find_instances_xml has returned its rows
Found == pc = "create_tei"

(***************************************************************************)
(* C9: find_instances_xml returns one row per (pattern, block that is not  *)
(* noise, non-overlapping match), none for a noise block, in pattern-major *)
(* order, then block order, then match position, repeated texts repeated;  *)
(* each row carries the document id and the digest of its pattern's text.  *)
(***************************************************************************)
OneRowPerMatch ==
    Found =>
        LET triples == MatchTriples
        IN  /\ Len(instance_db) = Cardinality(triples)
            /\ \A t \in triples :
                LET row == instance_db[1 + Cardinality({s \in triples : TripleBefore(s, t)})]
                    pattern == pattern_db[t[1]]
                IN  /\ row.package_id = protocol_id
                    /\ row.pattern = PatternDigest(pattern)
                    /\ row.txt = SubSeq(ContentTxt(root[t[2]]), t[3], t[3] + Len(pattern) - 1)

\* the same text was found twice in one block and gave two rows, a noise block
\* holding a match gave none, and overlapping candidates gave one row
OneRowPerMatchWitness ==
    /\ Found
    /\ \E i, j \in 1..Len(instance_db) :
            i < j /\ instance_db[i].txt = instance_db[j].txt
                  /\ instance_db[i].pattern = instance_db[j].pattern
    /\ \E p \in 1..Len(pattern_db), b \in 1..Len(root) :
            /\ _is_metadata_block(ContentTxt(root[b]))
            /\ MatchPositions(pattern_db[p], ContentTxt(root[b])) # {}
    /\ \E p \in 1..Len(pattern_db), b \in 1..Len(root) :
            /\ ~_is_metadata_block(ContentTxt(root[b]))
            /\ NonOverlapping(pattern_db[p], ContentTxt(root[b]))
                    # MatchPositions(pattern_db[p], ContentTxt(root[b]))

(***************************************************************************)
(* C10: no paragraph of a content block classified as noise opens a turn,  *)
(* also when its text contains the matched text of an instance found in    *)
(* another block.                                                          *)
(***************************************************************************)
NoiseBlockOpensNoTurn ==
    [][ (WalksParagraph
            /\ _is_metadata_block(ContentTxt(root[TextBlocks(root)[done_paragraphs + 1].cb]))) =>
        Len(body_div') = Len(body_div)
      ]_vars

(***************************************************************************)
(* Claims about create_parlaclarin (SpecCorpus)                            *)
(***************************************************************************)
\* the pruning loop of create_parlaclarin has ended
Pruned == pc = "pruned" /\ pass = 1

(***************************************************************************)
(* C6: after the pruning pass no element whose whitespace-normalized       *)
(* descendant text is empty remains in the corpus tree, and no element     *)
(* that has non-empty descendant text has been removed.                    *)
(***************************************************************************)
PruningRemovesExactlyTheEmpty ==
    Pruned =>
        /\ \A n \in InTree(tree) : NormalizeSpace(tree, n) # ""
        /\ \A n \in 1..Len(tree) :
                NormalizeSpace(AssembleCorpus(teis, corpus_metadata), n) # "" => n \in InTree(tree)

(***************************************************************************)
(* C7: the pruning loop run a second time on the tree its first run left   *)
(* removes no element.                                                     *)
(***************************************************************************)
SecondPassRemovesNothing ==
    \A k \in 1..Len(removed) : removed[k][1] # 2

=============================================================================
